---- MODULE Spec2Model ----
(***************************************************************************)
(* Verification model of the LUFT repository's two algorithmic cores:      *)
(*   - capsule_index_job.py: admission filter and capsule merge            *)
(*   - scripts/data_intake_v0.7.0.py: type inference, profiler, validator  *)
(* Python dicts are functions whose DOMAIN is the set of keys present;     *)
(* Python strings that are ordered or scanned are sequences of characters. *)
(***************************************************************************)
EXTENDS Integers, Sequences, FiniteSets, TLC

VARIABLES
    \* capsule_index_job.main
    pc,            \* position in main: "scan", "merge", "done"
    scanned,       \* every (capsule, repo, path) read from the manifests so far
    all_capsules,  \* main's all_capsules list
    i,             \* number of all_capsules elements merge_capsules has folded
    master_index,  \* merge_capsules' master_index dict
    \* data_intake_v0.7.0.main
    ipc,           \* position in main: "detect", "stats", "ranges", "validate",
                   \* "end", or "raised" when an exception left the pipeline
    data,          \* rows read from the CSV file, each a dict field -> text
    fieldnames,    \* the CSV header
    config,        \* the configuration dict
    column_types,  \* detect_column_types' descriptors
    type_warnings, \* detect_column_types' warnings
    stats,         \* calculate_statistics' result
    validation_issues,   \* validate_numeric_ranges' result
    validation_result,   \* validate_data's verdict
    validation_messages, \* validate_data's messages
    \* a second call of the three stages with the same arguments
    pass_no,       \* 1 during the first pass over the stages, 2 during the second
    first_pass,    \* what the first pass returned, once it is over
    \* experiment_runner.ExperimentRunner
    rpc,             \* position in run: "idle" before the first call, "loop" at
                     \* the head of the for loop, "iter" inside the inner try,
                     \* "sleep" at the delay, "finally", "returned"
    is_running,      \* self.is_running
    iteration_count, \* self.iteration_count
    error_count,     \* self.error_count
    iterations,      \* the argument of the current call of run
    loop_i,          \* the loop variable i
    run_calls,       \* how many times run has been called
    count_at_start,  \* iteration_count when the current call of run began
    errors_at_start, \* error_count when the current call of run began
    finalize_calls,  \* how often _finalize ran during the current call of run
    stop_called,     \* stop() was called since the current call set is_running
    interrupted      \* the current call of run caught a KeyboardInterrupt

mergeVars == <<pc, scanned, all_capsules, i, master_index>>

intakeVars == <<ipc, data, fieldnames, config, column_types, type_warnings,
                stats, validation_issues, validation_result, validation_messages>>

repeatVars == <<pass_no, first_pass>>

runnerVars == <<rpc, is_running, iteration_count, error_count, iterations, loop_i,
                run_calls, count_at_start, errors_at_start, finalize_calls,
                stop_called, interrupted>>

vars == <<mergeVars, intakeVars, repeatVars, runnerVars>>

(***************************************************************************)
(* Bounds                                                                  *)
(***************************************************************************)
\* capsules read from manifests in one run
MaxCapsules == 3

(***************************************************************************)
(* Strings                                                                 *)
(***************************************************************************)
\* the characters used, in code point order (Python compares str by code point)
Chars == <<" ", "+", "-", ".", "/",
           "0", "1", "2", "3", "4", "5", "6", "7", "8", "9",
           "E", "Y", "_", "a", "c", "e", "f", "g", "i", "l", "n",
           "o", "q", "r", "s", "t", "u", "x", "y">>

Ord(c) == CHOOSE k \in 1..Len(Chars) : Chars[k] = c

\* Python's a < b on str: lexicographic by code point, a proper prefix is smaller
RECURSIVE StrLess(_, _)
StrLess(a, b) ==
    IF b = <<>> THEN FALSE
    ELSE IF a = <<>> THEN TRUE
    ELSE IF Ord(Head(a)) < Ord(Head(b)) THEN TRUE
    ELSE IF Ord(Head(a)) > Ord(Head(b)) THEN FALSE
    ELSE StrLess(Tail(a), Tail(b))

(***************************************************************************)
(* Dict helpers                                                            *)
(***************************************************************************)
\* dict.get(key, default)
Get(d, key, default) == IF key \in DOMAIN d THEN d[key] ELSE default

\* {**d, key: value}
With(d, key, value) ==
    [k \in DOMAIN d \cup {key} |-> IF k = key THEN value ELSE d[k]]

(***************************************************************************)
(* capsule_index_job.py                                                    *)
(***************************************************************************)
Required == {"capsule_id", "timestamp_utc", "status", "hash"}

\* mutant: the required list misses "hash"
validate_schema_NoHash(capsule) ==
    \A field \in Required \ {"hash"} : field \in DOMAIN capsule

\* required = [...]; all(field in capsule for field in required)
validate_schema(capsule) ==
    \A field \in Required : field \in DOMAIN capsule

\* mutant: the manifest path is not recorded
WithSource_NoPath(capsule, repo, path) == With(capsule, "source_repo", repo)

\* {**capsule, "source_repo": repo, "manifest_path": path}
WithSource(capsule, repo, path) ==
    With(With(capsule, "source_repo", repo), "manifest_path", path)

\* tags are compared as sets only: list(set(...)) fixes no order
TagsOf(d) == Get(d, "tags", {})

\* mutant: rule 1 never applies
GreenBeats_Never(capsule, existing) == FALSE

\* mutant: a green candidate beats any current winner
GreenBeats_AnyWinner(capsule, existing) == capsule["status"] = "green"

\* rule 1: capsule["status"] == "green" and existing["status"] != "green"
GreenBeats(capsule, existing) ==
    capsule["status"] = "green" /\ existing["status"] # "green"

\* mutant: a candidate of equal timestamp replaces the winner too
OlderThan_OrEqual(capsule, existing) ==
    ~StrLess(existing["timestamp_utc"], capsule["timestamp_utc"])

\* rule 2: capsule["timestamp_utc"] < existing["timestamp_utc"]
OlderThan(capsule, existing) ==
    StrLess(capsule["timestamp_utc"], existing["timestamp_utc"])

\* mutant: rule 3 keeps the winner's tags only
UnionTags_WinnerOnly(existing, capsule) == TagsOf(existing)

\* mutant: rule 3 keeps the candidate's tags only
UnionTags_CandidateOnly(existing, capsule) == TagsOf(capsule)

\* rule 3: set(existing.get("tags", [])) | set(capsule.get("tags", []))
UnionTags(existing, capsule) == TagsOf(existing) \cup TagsOf(capsule)

\* mutant: a replacement keeps the provenance of the record it replaces
MergeStep_StaleSource(index, capsule, repo, path) ==
    LET cid == capsule["capsule_id"] IN
    IF cid \notin DOMAIN index
    THEN With(index, cid, WithSource(capsule, repo, path))
    ELSE LET existing == index[cid] IN
         IF GreenBeats(capsule, existing) \/ OlderThan(capsule, existing)
         THEN With(index, cid, WithSource(capsule, existing["source_repo"],
                                          existing["manifest_path"]))
         ELSE With(index, cid, With(existing, "tags", UnionTags(existing, capsule)))

\* one iteration of merge_capsules' loop
MergeStep(index, capsule, repo, path) ==
    LET cid == capsule["capsule_id"] IN
    IF cid \notin DOMAIN index
    THEN With(index, cid, WithSource(capsule, repo, path))
    ELSE LET existing == index[cid] IN
         IF GreenBeats(capsule, existing)
         THEN With(index, cid, WithSource(capsule, repo, path))
         ELSE IF OlderThan(capsule, existing)
         THEN With(index, cid, WithSource(capsule, repo, path))
         ELSE With(index, cid, With(existing, "tags", UnionTags(existing, capsule)))

\* the whole loop of merge_capsules over a list of (capsule, repo, path)
RECURSIVE MergeFrom(_, _)
MergeFrom(index, capsules) ==
    IF capsules = <<>> THEN index
    ELSE MergeFrom(MergeStep(index, Head(capsules).capsule,
                             Head(capsules).repo, Head(capsules).path),
                   Tail(capsules))

EmptyDict == [k \in {} |-> {}]

merge_capsules(capsules) == MergeFrom(EmptyDict, capsules)

(***************************************************************************)
(* Capsule records read from manifests                                     *)
(***************************************************************************)
Timestamps == { <<"0", "9">>, <<"1", "0">>, <<"9">> }

TagChoices == { {"x"}, {"y"} }

Capsule(cid, status, ts, h) ==
    [capsule_id |-> cid, timestamp_utc |-> ts, status |-> status, hash |-> h]

\* the hash stands for a digest of the record's content
HashOf(status, ts) == <<status, ts>>

WellFormed ==
    { With(Capsule("c1", st, ts, HashOf(st, ts)), "tags", tg) :
        st \in {"green", "red"}, ts \in Timestamps, tg \in TagChoices }
    \cup { Capsule("c1", "pending", <<"1", "0">>, <<"h0">>),
           Capsule("c2", "green", <<"1", "0">>, <<"h1">>),
           With(Capsule("c2", "red", <<"0", "9">>, <<"h2">>), "tags", {"z"}) }

\* records lacking a required field
Without(d, key) == [k \in DOMAIN d \ {key} |-> d[k]]

Malformed ==
    { Without(With(Capsule("c1", "green", <<"0", "9">>, <<"h3">>), "tags", {"w"}), "hash"),
      Without(With(Capsule("c3", "green", <<"0", "9">>, <<"h4">>), "tags", {"w"}), "status"),
      Without(Capsule("c2", "green", <<"0", "9">>, <<"h5">>), "timestamp_utc") }

Capsules == WellFormed \cup Malformed

(***************************************************************************)
(* main                                                                    *)
(***************************************************************************)
MergeIdle ==
    /\ pc = "scan"
    /\ scanned = <<>>
    /\ all_capsules = <<>>
    /\ i = 0
    /\ master_index = EmptyDict

\* the intake script is not running
IntakeIdle ==
    /\ ipc = "idle"
    /\ data = <<>>
    /\ fieldnames = <<>>
    /\ config = EmptyDict
    /\ column_types = EmptyDict
    /\ type_warnings = <<>>
    /\ stats = EmptyDict
    /\ validation_issues = <<>>
    /\ validation_result = FALSE
    /\ validation_messages = <<>>
    /\ pass_no = 1
    /\ first_pass = <<>>

\* ExperimentRunner.__init__, lines 25-27; run has not been called
RunnerIdle ==
    /\ rpc = "idle"
    /\ is_running = FALSE
    /\ iteration_count = 0
    /\ error_count = 0
    /\ iterations = 0
    /\ loop_i = 0
    /\ run_calls = 0
    /\ count_at_start = 0
    /\ errors_at_start = 0
    /\ finalize_calls = 0
    /\ stop_called = FALSE
    /\ interrupted = FALSE

InitMerge == MergeIdle /\ IntakeIdle /\ RunnerIdle

\* main, lines 55-59: one capsule of the next manifest; repo_dirs = ["./"] and
\* the k-th manifest file found is identified by k
ScanCapsule ==
    /\ pc = "scan"
    /\ Len(scanned) < MaxCapsules
    /\ \E capsule \in Capsules :
         LET entry == [capsule |-> capsule, repo |-> "./",
                       path |-> Len(scanned) + 1] IN
         /\ scanned' = Append(scanned, entry)
         /\ all_capsules' = IF validate_schema(capsule)
                            THEN Append(all_capsules, entry)
                            ELSE all_capsules
    /\ UNCHANGED <<pc, i, master_index, intakeVars, repeatVars, runnerVars>>

\* main, line 60: the manifests are exhausted, merge_capsules starts
StartMerge ==
    /\ pc = "scan"
    /\ pc' = "merge"
    /\ i' = 0
    /\ master_index' = EmptyDict
    /\ UNCHANGED <<scanned, all_capsules, intakeVars, repeatVars, runnerVars>>

\* merge_capsules, lines 26-38: one iteration of the loop
MergeCapsule ==
    /\ pc = "merge"
    /\ i < Len(all_capsules)
    /\ i' = i + 1
    /\ master_index' = MergeStep(master_index, all_capsules[i + 1].capsule,
                                 all_capsules[i + 1].repo, all_capsules[i + 1].path)
    /\ UNCHANGED <<pc, scanned, all_capsules, intakeVars, repeatVars, runnerVars>>

\* merge_capsules returns, main saves the index (lines 39, 61)
FinishMerge ==
    /\ pc = "merge"
    /\ i = Len(all_capsules)
    /\ pc' = "done"
    /\ UNCHANGED <<scanned, all_capsules, i, master_index, intakeVars, repeatVars, runnerVars>>

NextMerge == ScanCapsule \/ StartMerge \/ MergeCapsule \/ FinishMerge

SpecMerge == InitMerge /\ [][NextMerge]_vars

(***************************************************************************)
(* data_intake_v0.7.0.py: text values                                      *)
(***************************************************************************)
\* rows of data[:n]
Take(s, n) == SubSeq(s, 1, IF n < Len(s) THEN n ELSE Len(s))

Digits == {"0", "1", "2", "3", "4", "5", "6", "7", "8", "9"}

DigitVal(c) == Ord(c) - Ord("0")

\* str.lower on one character
LowerChar(c) ==
    IF c = "E" THEN "e" ELSE IF c = "Y" THEN "y" ELSE c

Lower(s) == [k \in 1..Len(s) |-> LowerChar(s[k])]

\* str.strip: leading and trailing blanks removed
RECURSIVE LStrip(_)
LStrip(s) == IF s # <<>> /\ Head(s) = " " THEN LStrip(Tail(s)) ELSE s

RECURSIVE RStrip(_)
RStrip(s) ==
    IF s # <<>> /\ s[Len(s)] = " " THEN RStrip(SubSeq(s, 1, Len(s) - 1)) ELSE s

Strip(s) == RStrip(LStrip(s))

\* ['true', 'false', 'yes', 'no', '0', '1', 't', 'f', 'y', 'n']
BoolTokens ==
    { <<"t", "r", "u", "e">>, <<"f", "a", "l", "s", "e">>, <<"y", "e", "s">>,
      <<"n", "o">>, <<"0">>, <<"1">>, <<"t">>, <<"f">>, <<"y">>, <<"n">> }

\* val_str = str(val).strip().lower(); val_str in [...]
IsBoolToken(val) == Lower(Strip(val)) \in BoolTokens

AllDigits(s) == \A k \in 1..Len(s) : s[k] \in Digits

\* the number written by a string of digits
RECURSIVE DigitsToInt(_)
DigitsToInt(s) ==
    IF s = <<>> THEN 0
    ELSE 10 * DigitsToInt(SubSeq(s, 1, Len(s) - 1)) + DigitVal(s[Len(s)])

RECURSIVE Pow10(_)
Pow10(n) == IF n = 0 THEN 1 ELSE 10 * Pow10(n - 1)

\* positions of character c in s
Positions(s, c) == { k \in 1..Len(s) : s[k] = c }

Min(S) == CHOOSE x \in S : \A y \in S : x <= y

NotAFloat == [ok |-> FALSE, kind |-> "none", num |-> 0, den |-> 1]

\* the mantissa "ddd", "ddd.ddd", "ddd." or ".ddd" with exponent e as a rational
ParseDecimal(mant, neg, e) ==
    LET dots == Positions(mant, ".")
        dot == IF dots = {} THEN Len(mant) + 1 ELSE Min(dots)
        intpart == SubSeq(mant, 1, dot - 1)
        fracpart == SubSeq(mant, dot + 1, Len(mant))
        d == DigitsToInt(intpart \o fracpart)
        sd == IF neg THEN 0 - d ELSE d
        e10 == e - Len(fracpart)
    IN  IF Cardinality(dots) > 1 \/ ~AllDigits(intpart) \/ ~AllDigits(fracpart)
           \/ Len(intpart) + Len(fracpart) = 0
        THEN NotAFloat
        ELSE IF e10 >= 0
        THEN [ok |-> TRUE, kind |-> "finite", num |-> sd * Pow10(e10), den |-> 1]
        ELSE [ok |-> TRUE, kind |-> "finite", num |-> sd, den |-> Pow10(0 - e10)]

\* an unsigned numeral: inf, infinity, nan, or a decimal with an optional
\* exponent
ParseUnsigned(body, neg) ==
    LET es == Positions(body, "e")
        epos == IF es = {} THEN Len(body) + 1 ELSE Min(es)
        mant == SubSeq(body, 1, epos - 1)
        expo == SubSeq(body, epos + 1, Len(body))
        eneg == expo # <<>> /\ Head(expo) = "-"
        edigits == IF expo # <<>> /\ Head(expo) \in {"+", "-"} THEN Tail(expo) ELSE expo
    IN  IF body \in { <<"i", "n", "f">>, <<"i", "n", "f", "i", "n", "i", "t", "y">> }
        THEN [ok |-> TRUE, kind |-> "inf", num |-> 0, den |-> 1]
        ELSE IF body = <<"n", "a", "n">>
        THEN [ok |-> TRUE, kind |-> "nan", num |-> 0, den |-> 1]
        ELSE IF es = {} THEN ParseDecimal(mant, neg, 0)
        ELSE IF edigits = <<>> \/ ~AllDigits(edigits) THEN NotAFloat
        ELSE ParseDecimal(mant, neg,
                          IF eneg THEN 0 - DigitsToInt(edigits) ELSE DigitsToInt(edigits))

\* a numeral with its optional sign
ParseSigned(t) ==
    IF t # <<>> /\ Head(t) \in {"+", "-"} THEN ParseUnsigned(Tail(t), Head(t) = "-")
    ELSE ParseUnsigned(t, FALSE)

\* float(val) for text: blanks stripped, any case; ok = FALSE is ValueError.
\* A finite result is the exact rational num/den.
ParseFloat(val) == ParseSigned(Lower(Strip(val)))

\* float(val) succeeds
IsNumeric(val) == ParseFloat(val).ok

\* int(num_val) raises OverflowError, which the except clause does not catch
IntRaises(val) == ParseFloat(val).kind = "inf"

\* num_val == int(num_val); int(nan) raises ValueError, which is caught
IsInteger(val) ==
    LET p == ParseFloat(val) IN p.kind = "finite" /\ p.num % p.den = 0

\* isinstance(val, str) and len(val) >= 8 and any(sep in val for sep in '-/.')
IsDateLike(val) ==
    Len(val) >= 8 /\ \E k \in 1..Len(val) : val[k] \in {"-", "/", "."}

(***************************************************************************)
(* detect_column_types                                                     *)
(***************************************************************************)
SampleCap == 100

\* sample_size = min(100, len(data))
SampleSize(rows) == IF SampleCap < Len(rows) THEN SampleCap ELSE Len(rows)

\* row.get(field, '') of every row
ColumnOf(rows, field) == [k \in 1..Len(rows) |-> rows[k][field]]

NonEmpty(val) == val # <<>>

\* [row.get(field, '') for row in data[:sample_size] if row.get(field)]
SampleValues(rows, field) ==
    SelectSeq(ColumnOf(Take(rows, SampleSize(rows)), field), NonEmpty)

\* the four counters after the loop over sample_values: each counts the
\* sample values that pass its test
Counters(sample) ==
    [boolean_count |-> Cardinality({k \in 1..Len(sample) : IsBoolToken(sample[k])}),
     numeric_count |-> Cardinality({k \in 1..Len(sample) : IsNumeric(sample[k])}),
     integer_count |-> Cardinality({k \in 1..Len(sample) : IsInteger(sample[k])}),
     date_count |-> Cardinality({k \in 1..Len(sample) : IsDateLike(sample[k])})]

\* mutant: the threshold is not strict
RatioAbove_NotStrict(count, n, num, den) == count * den >= num * n

\* count / n > num / den, for n > 0
RatioAbove(count, n, num, den) == count * den > num * n

\* mutant: every descriptor reports full confidence
Descriptor_FullConfidence(type, cnum, cden, n) ==
    [type |-> type, confidence |-> <<1, 1>>, sample_count |-> n]

Descriptor(type, cnum, cden, n) ==
    [type |-> type, confidence |-> <<cnum, cden>>, sample_count |-> n]

\* the if/elif chain on the four ratios (lines 217-264) for the counters c of
\* n sampled values; a confidence c/n is the pair <<c, n>>
TypeFromCounters(c, n, unique_count) ==
    IF RatioAbove(c.boolean_count, n, 9, 10)
    THEN Descriptor("boolean", c.boolean_count, n, n)
    ELSE IF RatioAbove(c.date_count, n, 8, 10)
    THEN Descriptor("datetime", c.date_count, n, n)
    ELSE IF RatioAbove(c.integer_count, n, 9, 10)
    THEN Descriptor("integer", c.integer_count, n, n)
    ELSE IF RatioAbove(c.numeric_count, n, 8, 10)
    THEN Descriptor("numeric", c.numeric_count, n, n)
    ELSE IF RatioAbove(c.numeric_count, n, 3, 10)
    THEN Descriptor("mixed", 1, 2, n)
    ELSE IF RatioAbove(unique_count, n, 9, 10)
    THEN Descriptor("categorical_high", n - c.numeric_count, n, n)
    ELSE Descriptor("categorical", n - c.numeric_count, n, n)

\* the descriptor of a field with a non-empty sample
DetermineType(sample) ==
    TypeFromCounters(Counters(sample), Len(sample),
                     Cardinality({ sample[k] : k \in 1..Len(sample) }))

\* one iteration of the loop over fieldnames
DescribeField(rows, field) ==
    LET sample == SampleValues(rows, field) IN
    IF sample = <<>> THEN Descriptor("empty", 1, 1, 0) ELSE DetermineType(sample)

\* mutant: no warning is ever emitted
TypeWarnings_Silent(rows, fields) == <<>>

\* the warnings, in field order
RECURSIVE TypeWarnings(_, _)
TypeWarnings(rows, fields) ==
    IF fields = <<>> THEN <<>>
    ELSE LET t == DescribeField(rows, Head(fields)).type IN
         (IF t = "empty" THEN << [kind |-> "empty", field |-> Head(fields)] >>
          ELSE IF t = "mixed" THEN << [kind |-> "mixed", field |-> Head(fields)] >>
          ELSE <<>>) \o TypeWarnings(rows, Tail(fields))

\* some sampled value makes int(num_val) raise
DetectRaises(rows, fields) ==
    rows # <<>> /\ \E k \in 1..Len(fields) :
        \E j \in 1..Len(SampleValues(rows, fields[k])) :
            IntRaises(SampleValues(rows, fields[k])[j])

\* detect_column_types(data, fieldnames)[0]
detect_column_types(rows, fields) ==
    IF rows = <<>> THEN EmptyDict
    ELSE [f \in { fields[k] : k \in 1..Len(fields) } |-> DescribeField(rows, f)]

(***************************************************************************)
(* Tables read by the intake script                                        *)
(***************************************************************************)
\* longest column of the type inference tables
MaxRun == 10

\* most rows placed before a run of about SampleCap rows
MaxLead == 2

InferValues ==
    { <<>>, <<"1">>, <<"Y">>, <<"7">>, <<"2", ".", "5">>, <<"x">>,
      <<"2", "0", "2", "5", "-", "1", "-", "7">>,
      <<"0", "0", "0", "0", "0", "2", ".", "5">>,
      <<"0", "0", "0", "0", "0", "0", "7", ".", "0">>,
      <<"n", "a", "n">>, <<"i", "n", "f">> }

\* a one-column table: n1 rows of value a, then n2 rows of value b
TwoRuns(field, a, n1, b, n2) ==
    [k \in 1..(n1 + n2) |-> [f \in {field} |-> IF k <= n1 THEN a ELSE b]]

RunLengths ==
    { <<n1, n2>> \in (0..MaxRun) \X (0..MaxRun) : n1 + n2 <= MaxRun }
    \cup ((0..MaxLead) \X {SampleCap - 1, SampleCap, SampleCap + 1})

FieldA == <<"a">>

InferTables ==
    { TwoRuns(FieldA, a, r[1], b, r[2]) : a \in InferValues, b \in InferValues,
                                         r \in RunLengths }

DefaultConfig == [thresholds |-> EmptyDict]

InitInfer ==
    /\ MergeIdle
    /\ RunnerIdle
    /\ ipc = "detect"
    /\ data \in InferTables
    /\ fieldnames = <<FieldA>>
    /\ config = DefaultConfig
    /\ column_types = EmptyDict
    /\ type_warnings = <<>>
    /\ stats = EmptyDict
    /\ validation_issues = <<>>
    /\ validation_result = FALSE
    /\ validation_messages = <<>>
    /\ pass_no = 1
    /\ first_pass = <<>>

\* main, line 727: column_types, type_warnings = detect_column_types(...)
DetectColumnTypes ==
    /\ ipc = "detect"
    /\ IF DetectRaises(data, fieldnames)
       THEN /\ ipc' = "raised"
            /\ UNCHANGED <<column_types, type_warnings>>
       ELSE /\ ipc' = "stats"
            /\ column_types' = detect_column_types(data, fieldnames)
            /\ type_warnings' = IF data = <<>> THEN <<>>
                                ELSE TypeWarnings(data, fieldnames)
    /\ UNCHANGED <<data, fieldnames, config, stats, validation_issues,
                   validation_result, validation_messages, mergeVars, repeatVars, runnerVars>>

NextInfer == DetectColumnTypes

SpecInfer == InitInfer /\ [][NextInfer]_vars

(***************************************************************************)
(* Exact numbers: a float is the rational num/den with den > 0, and nan is  *)
(* 0/0, for which every comparison below is false and every sum, difference *)
(* and product is 0/0 again. The tables of the pipeline hold nan and finite  *)
(* numerals that are multiples of 0.5, for which the float operations of    *)
(* the script are exact.                                                    *)
(***************************************************************************)
Rat(n, d) == [num |-> n, den |-> d]

NaN == Rat(0, 0)

RLess(a, b) == a.num * b.den < b.num * a.den

RSub(a, b) == Rat(a.num * b.den - b.num * a.den, a.den * b.den)

RAdd(a, b) == Rat(a.num * b.den + b.num * a.den, a.den * b.den)

\* p/q * a
RScale(p, q, a) == Rat(p * a.num, q * a.den)

\* mutant: no value is counted as missing
MissingCount_None(rows, field) == 0

(***************************************************************************)
(* calculate_statistics                                                    *)
(***************************************************************************)
\* sum(1 for v in values if not v)
MissingCount(rows, field) ==
    Cardinality({ k \in 1..Len(rows) : rows[k][field] = <<>> })

\* float(v) of a value that parses
FloatOf(v) ==
    LET p == ParseFloat(v) IN IF p.kind = "nan" THEN NaN ELSE Rat(p.num, p.den)

\* v is kept: it is not empty and float(v) succeeds
Parses(v) == v # <<>> /\ IsNumeric(v)

\* numeric_values: float(v) of every non-empty v that parses, in row order;
\* the list of a longer column is the list of its first half followed by the
\* list of its second half
RECURSIVE FloatsOf(_)
FloatsOf(values) ==
    IF values = <<>> THEN <<>>
    ELSE IF Len(values) = 1
    THEN (IF Parses(values[1]) THEN << FloatOf(values[1]) >> ELSE <<>>)
    ELSE FloatsOf(SubSeq(values, 1, Len(values) \div 2))
         \o FloatsOf(SubSeq(values, Len(values) \div 2 + 1, Len(values)))

NumericValues(rows, field) == FloatsOf(ColumnOf(rows, field))

\* sorted(numeric_values) as list.sort computes it for a list shorter than 64:
\* the run the list starts with (non-descending, or strictly descending and
\* then reversed), then a binary insertion of every later element; only
\* x < y is ever asked.  A longer list made of two runs of equal values comes
\* out the same: without nan the order is total and equal values are alike,
\* and with nan no comparison succeeds, so the list is one run and stays as is
RECURSIVE AscendingRun(_, _)
AscendingRun(s, k) ==
    IF k < Len(s) /\ ~RLess(s[k + 1], s[k]) THEN AscendingRun(s, k + 1) ELSE k

RECURSIVE DescendingRun(_, _)
DescendingRun(s, k) ==
    IF k < Len(s) /\ RLess(s[k + 1], s[k]) THEN DescendingRun(s, k + 1) ELSE k

Reverse(s) == [k \in 1..Len(s) |-> s[Len(s) + 1 - k]]

\* the number of elements of run the pivot is put after
RECURSIVE Bisect(_, _, _, _)
Bisect(run, pivot, l, r) ==
    IF l >= r THEN l
    ELSE IF RLess(pivot, run[l + (r - l) \div 2 + 1])
    THEN Bisect(run, pivot, l, l + (r - l) \div 2)
    ELSE Bisect(run, pivot, l + (r - l) \div 2 + 1, r)

InsertAt(run, pivot, l) ==
    SubSeq(run, 1, l) \o <<pivot>> \o SubSeq(run, l + 1, Len(run))

\* the list with its first start elements in order, after every later element
\* has been put into place among them, one at a time
RECURSIVE BinarySort(_, _)
BinarySort(s, start) ==
    IF start >= Len(s) THEN s
    ELSE BinarySort(InsertAt(SubSeq(s, 1, start), s[start + 1],
                             Bisect(SubSeq(s, 1, start), s[start + 1], 0, start))
                    \o SubSeq(s, start + 2, Len(s)),
                    start + 1)

FirstRun(s) ==
    IF RLess(s[2], s[1]) THEN DescendingRun(s, 2) ELSE AscendingRun(s, 2)

Sorted(s) ==
    IF Len(s) < 2 THEN s
    ELSE BinarySort((IF RLess(s[2], s[1]) THEN Reverse(SubSeq(s, 1, FirstRun(s)))
                     ELSE SubSeq(s, 1, FirstRun(s)))
                    \o SubSeq(s, FirstRun(s) + 1, Len(s)),
                    FirstRun(s))

\* min(numeric_values): the first value no later value is less than
RECURSIVE MinFrom(_, _)
MinFrom(best, values) ==
    IF values = <<>> THEN best
    ELSE IF RLess(Head(values), best) THEN MinFrom(Head(values), Tail(values))
    ELSE MinFrom(best, Tail(values))

\* max(numeric_values)
RECURSIVE MaxFrom(_, _)
MaxFrom(best, values) ==
    IF values = <<>> THEN best
    ELSE IF RLess(best, Head(values)) THEN MaxFrom(Head(values), Tail(values))
    ELSE MaxFrom(best, Tail(values))

\* mutant: the values within the fences are counted
OutsideFence_Within(v, q1, q3, kn, kd) ==
    LET iqr == RSub(q3, q1) IN
    /\ ~RLess(v, RSub(q1, RScale(kn, kd, iqr)))
    /\ ~RLess(RAdd(q3, RScale(kn, kd, iqr)), v)

\* v < q1 - k * iqr or v > q3 + k * iqr, with k = kn / kd
OutsideFence(v, q1, q3, kn, kd) ==
    LET iqr == RSub(q3, q1) IN
    \/ RLess(v, RSub(q1, RScale(kn, kd, iqr)))
    \/ RLess(RAdd(q3, RScale(kn, kd, iqr)), v)

CountOutside(values, q1, q3, kn, kd) ==
    Cardinality({ k \in 1..Len(values) : OutsideFence(values[k], q1, q3, kn, kd) })

\* the column profile from numeric_values and sorted_vals (lines 367-414); the
\* moments (mean, variance, std_dev, skewness) are not represented
ProfileOf(col_info, numeric_values, sorted_vals, n) ==
    IF n = 0 THEN [type |-> col_info.type, count |-> 0]
    ELSE LET p5 == sorted_vals[(5 * n) \div 100 + 1]
             q1 == sorted_vals[n \div 4 + 1]
             median == sorted_vals[n \div 2 + 1]
             q3 == sorted_vals[(3 * n) \div 4 + 1]
             p95 == sorted_vals[(95 * n) \div 100 + 1]
             lowest == MinFrom(Head(numeric_values), Tail(numeric_values))
             highest == MaxFrom(Head(numeric_values), Tail(numeric_values))
         IN  [type |-> col_info.type, count |-> n,
              min |-> lowest, max |-> highest, range |-> RSub(highest, lowest),
              median |-> median, p5 |-> p5, q1 |-> q1, q3 |-> q3, p95 |-> p95,
              iqr |-> RSub(q3, q1),
              outliers |-> CountOutside(numeric_values, q1, q3, 3, 2),
              extreme_outliers |-> CountOutside(numeric_values, q1, q3, 3, 1),
              confidence |-> col_info.confidence]

\* the profile of a numeric or integer column (lines 358-414)
NumericProfile(rows, field, col_info) ==
    ProfileOf(col_info, NumericValues(rows, field),
              Sorted(NumericValues(rows, field)),
              Len(NumericValues(rows, field)))

\* the positions at which a non-empty value occurs for the first time
FirstPositions(values) ==
    { k \in 1..Len(values) :
        values[k] # <<>> /\ \A j \in 1..(k - 1) : values[j] # values[k] }

\* the values at the positions of P, in the order of the positions
ValuesAt(values, P) ==
    [n \in 1..Cardinality(P) |->
        values[CHOOSE k \in P : Cardinality({ j \in P : j < k }) = n - 1]]

\* the distinct non-empty values in first-seen order (value_counts' key order)
FirstSeen(values) == ValuesAt(values, FirstPositions(values))

Occurrences(values, v) == Cardinality({ k \in 1..Len(values) : values[k] = v })

\* mutant: the items are not ordered by count
InsertByCount_Front(x, s) == <<x>> \o s

\* sorted(items, key=count, reverse=True): stable, larger counts first
RECURSIVE InsertByCount(_, _)
InsertByCount(x, s) ==
    IF s = <<>> THEN <<x>>
    ELSE IF x.count > Head(s).count THEN <<x>> \o s
    ELSE <<Head(s)>> \o InsertByCount(x, Tail(s))

RECURSIVE SortedByCount(_)
SortedByCount(s) ==
    IF s = <<>> THEN <<>>
    ELSE InsertByCount(s[Len(s)], SortedByCount(SubSeq(s, 1, Len(s) - 1)))

TopN == 10

\* the profile of any other column (lines 416-431); percentage and
\* cardinality are the pairs <<numerator, denominator>>
CategoricalProfile(rows, field, col_type, confidence) ==
    LET values == ColumnOf(rows, field)
        keys == FirstSeen(values)
        items == [k \in 1..Len(keys) |->
                    [value |-> keys[k], count |-> Occurrences(values, keys[k])]]
        top_values == Take(SortedByCount(items), TopN)
    IN  [type |-> col_type,
         unique_count |-> Len(keys),
         cardinality |-> <<Len(keys), Len(values)>>,
         top_values |-> [k \in 1..Len(top_values) |->
                           [value |-> top_values[k].value,
                            count |-> top_values[k].count,
                            percentage |-> <<top_values[k].count * 100, Len(rows)>>]],
         confidence |-> confidence]

\* stats['columns'][field]
ColumnProfile(rows, field, types) ==
    LET col_info == Get(types, field, EmptyDict)
        col_type == Get(col_info, "type", "unknown")
    IN  IF col_type \in {"numeric", "integer"}
        THEN NumericProfile(rows, field, col_info)
        ELSE CategoricalProfile(rows, field, col_type,
                                Get(col_info, "confidence", <<0, 1>>))

RECURSIVE SumOver(_, _)
SumOver(S, f) ==
    IF S = {} THEN 0
    ELSE LET x == CHOOSE y \in S : TRUE IN f[x] + SumOver(S \ {x}, f)

\* 1 - total_missing / total_cells as the pair <<numerator, denominator>>
QualityScore(rows, fields, missing) ==
    LET total_cells == Len(rows) * Cardinality(fields)
        total_missing == SumOver(fields, missing)
    IN  IF Cardinality(fields) = 0 THEN <<0, 1>>
        ELSE IF total_cells > 0 THEN <<total_cells - total_missing, total_cells>>
        ELSE <<0, 1>>

calculate_statistics(rows, fields, types) ==
    LET fs == { fields[k] : k \in 1..Len(fields) }
        missing == [f \in fs |-> MissingCount(rows, f)]
    IN  IF rows = <<>>
        THEN [total_records |-> 0, columns |-> EmptyDict,
              missing_values |-> EmptyDict, quality_score |-> <<0, 1>>,
              validation_issues |-> <<>>]
        ELSE [total_records |-> Len(rows),
              columns |-> [f \in fs |-> ColumnProfile(rows, f, types)],
              missing_values |-> missing,
              quality_score |-> QualityScore(rows, fs, missing),
              validation_issues |-> <<>>]

(***************************************************************************)
(* validate_numeric_ranges                                                 *)
(***************************************************************************)
\* sub in s
Contains(s, sub) ==
    \E k \in 0..(Len(s) - Len(sub)) : SubSeq(s, k + 1, k + Len(sub)) = sub

W_frequency == <<"f", "r", "e", "q", "u", "e", "n", "c", "y">>
W_freq == <<"f", "r", "e", "q">>
W_energy == <<"e", "n", "e", "r", "g", "y">>
W_lattice == <<"l", "a", "t", "t", "i", "c", "e">>
W_constant == <<"c", "o", "n", "s", "t", "a", "n", "t">>

\* invalid_count: non-empty values float() rejects
InvalidCount(rows, field) ==
    Cardinality({ k \in 1..Len(rows) :
                    rows[k][field] # <<>> /\ ~ParseFloat(rows[k][field]).ok })

\* len([v for v in values if v < lo or v > hi])
CountOutOfRange(values, lo, hi) ==
    Cardinality({ k \in 1..Len(values) :
                    RLess(values[k], lo) \/ RLess(hi, values[k]) })

\* sum(1 for v in values if v < 0)
CountNegative(values) ==
    Cardinality({ k \in 1..Len(values) : RLess(values[k], Rat(0, 1)) })

Issue(field, kind, count) == [field |-> field, kind |-> kind, count |-> count]

\* the issues of one field, in the order the loop body appends them
FieldIssues(rows, field, types, thresholds) ==
    LET col_info == Get(types, field, EmptyDict)
        values == NumericValues(rows, field)
        invalid_count == InvalidCount(rows, field)
        field_lower == Lower(field)
        radio_params == Get(thresholds, "radio_frequency", EmptyDict)
        min_freq == Get(radio_params, "min_frequency_hz", Rat(1000000, 1))
        max_freq == Get(radio_params, "max_frequency_hz", Rat(1000000 * 1000000, 1))
        lattice_params == Get(thresholds, "lattice_parameters", EmptyDict)
        min_lc == Get(lattice_params, "min_lattice_constant", Rat(1, 10))
        max_lc == Get(lattice_params, "max_lattice_constant", Rat(100, 1))
    IN  IF Get(col_info, "type", "none") \notin {"numeric", "integer"} THEN <<>>
        ELSE (IF invalid_count > 0
              THEN << Issue(field, "invalid", invalid_count) >> ELSE <<>>)
             \o (IF values = <<>> THEN <<>>
                 ELSE (IF (Contains(field_lower, W_frequency)
                             \/ Contains(field_lower, W_freq))
                          /\ CountOutOfRange(values, min_freq, max_freq) > 0
                       THEN << Issue(field, "frequency", CountOutOfRange(values, min_freq, max_freq)) >>
                       ELSE <<>>)
                      \o (IF Contains(field_lower, W_energy)
                             /\ CountNegative(values) > 0
                          THEN << Issue(field, "energy", CountNegative(values)) >>
                          ELSE <<>>)
                      \o (IF (Contains(field_lower, W_lattice)
                                \/ Contains(field_lower, W_constant))
                             /\ CountOutOfRange(values, min_lc, max_lc) > 0
                          THEN << Issue(field, "lattice", CountOutOfRange(values, min_lc, max_lc)) >>
                          ELSE <<>>))

RECURSIVE IssuesOf(_, _, _, _)
IssuesOf(rows, fields, types, thresholds) ==
    IF fields = <<>> THEN <<>>
    ELSE FieldIssues(rows, Head(fields), types, thresholds)
         \o IssuesOf(rows, Tail(fields), types, thresholds)

validate_numeric_ranges(rows, fields, types, cfg) ==
    IssuesOf(rows, fields, types, Get(cfg, "thresholds", EmptyDict))

(***************************************************************************)
(* validate_data                                                           *)
(***************************************************************************)
Msg(level, check) == [level |-> level, check |-> check]

\* level 1 (lines 459-467)
SampleSizeMsg(ok) == Msg(IF ok THEN "info" ELSE "warning", "sample_size")

\* level 2 (lines 471-479)
CompletenessMsg(ok) == Msg(IF ok THEN "info" ELSE "error", "completeness")

\* level 3 (lines 489-496)
OutlierMsg(ok) == Msg(IF ok THEN "info" ELSE "warning", "outlier_ratio")

\* level 4 (line 503)
IssueMsg(issue) == [level |-> "warning", check |-> "issue", issue |-> issue]

\* mutant: an exceeded outlier ratio fails the verdict
AfterOutlierCheck_Gate(passed, ratio_ok) == passed /\ ratio_ok

\* validation_passed after level 3, which never assigns it (lines 487-496)
AfterOutlierCheck(passed, ratio_ok) == passed

\* mutant: the validation issues are reported before the outlier ratio
MessageList_IssuesEarly(sample_msg, quality_msg, outlier_msgs, issue_msgs) ==
    <<sample_msg, quality_msg>> \o issue_msgs \o outlier_msgs

\* validation_messages in the order of the appends (lines 461-503)
MessageList(sample_msg, quality_msg, outlier_msgs, issue_msgs) ==
    <<sample_msg, quality_msg>> \o outlier_msgs \o issue_msgs

\* mutant: a score equal to the threshold does not pass
PairGeq_Strict(x, y) == x[1] * y[2] > y[1] * x[2]

\* a / b >= c / d for pairs <<a, b>>, <<c, d>> with positive denominators
PairGeq(x, y) == x[1] * y[2] >= y[1] * x[2]

NumericColumns(st) ==
    { f \in DOMAIN st.columns : Get(st.columns[f], "type", "none") \in {"numeric", "integer"} }

\* sum(col.get(key, 0) for col in stats['columns'].values() if numeric)
TotalOf(st, key) ==
    SumOver(NumericColumns(st), [f \in NumericColumns(st) |-> Get(st.columns[f], key, 0)])

\* validate_data(data, stats, config, validation_issues) for non-empty data:
\* the verdict and the messages
validate_data(rows, st, cfg, issues) ==
    LET thresholds == Get(Get(cfg, "thresholds", EmptyDict), "data_quality", EmptyDict)
        min_completeness == Get(thresholds, "min_completeness", <<95, 100>>)
        min_sample_size == Get(thresholds, "min_sample_size", 100)
        max_outlier_ratio == Get(thresholds, "max_outlier_ratio", <<2, 100>>)
        sample_ok == ~(Len(rows) < min_sample_size)
        quality_score == Get(st, "quality_score", <<0, 1>>)
        quality_ok == PairGeq(quality_score, min_completeness)
        total_outliers == TotalOf(st, "outliers")
        numeric_records == TotalOf(st, "count")
        ratio_ok == PairGeq(max_outlier_ratio, <<total_outliers, numeric_records>>)
    IN  IF rows = <<>> THEN [passed |-> FALSE, messages |-> <<>>]
        ELSE [passed |->
                 IF numeric_records > 0
                 THEN AfterOutlierCheck(sample_ok /\ quality_ok, ratio_ok)
                 ELSE sample_ok /\ quality_ok,
              messages |->
                 MessageList(SampleSizeMsg(sample_ok), CompletenessMsg(quality_ok),
                             IF numeric_records > 0 THEN << OutlierMsg(ratio_ok) >>
                             ELSE <<>>,
                             [k \in 1..Len(issues) |-> IssueMsg(issues[k])])]

(***************************************************************************)
(* Tables and configurations of the pipeline runs                          *)
(***************************************************************************)
\* longest column of the one-column pipeline tables
MaxPipeRun == 6

\* most rows of the two-column pipeline tables
MaxPairRows == 2

FieldEnergy == <<"E", "n", "e", "r", "g", "y">>
FieldFreq == <<"f", "r", "e", "q">>
FieldEnergyConstant == <<"e", "n", "e", "r", "g", "y", "_", "c", "o", "n", "s", "t", "a", "n", "t">>

PipeValues ==
    { <<>>, <<"7">>, <<"-", "3">>, <<"2", ".", "5">>, <<"x">>, <<"n", "a", "n">> }

PairValues == { <<>>, <<"7">>, <<"-", "3">>, <<"x">> }

RECURSIVE SeqsUpTo(_, _)
SeqsUpTo(S, n) ==
    IF n = 0 THEN { <<>> }
    ELSE LET shorter == SeqsUpTo(S, n - 1) IN
         shorter \cup { Append(s, x) : s \in { t \in shorter : Len(t) = n - 1 }, x \in S }

PipeRunLengths ==
    { r \in (0..MaxPipeRun) \X (0..MaxPipeRun) : r[1] + r[2] <= MaxPipeRun }

OneColumnInputs ==
    { [rows |-> TwoRuns(FieldEnergy, a, r[1], b, r[2]), fields |-> <<FieldEnergy>>] :
        a \in PipeValues, b \in PipeValues, r \in PipeRunLengths }

PairFields == <<FieldFreq, FieldEnergyConstant>>

PairRow(x, y) ==
    [f \in {FieldFreq, FieldEnergyConstant} |-> IF f = FieldFreq THEN x ELSE y]

PairRows == { PairRow(x, y) : x \in PairValues, y \in PairValues }

TwoColumnInputs ==
    { [rows |-> rows, fields |-> PairFields] : rows \in SeqsUpTo(PairRows, MaxPairRows) }

\* most rows of the one-column tables whose values come in any order
MaxFreeRows == 4

FreeValues == { <<>>, <<"7">>, <<"-", "7">>, <<"2", ".", "5">>, <<"n", "a", "n">> }

FreeRows == { [f \in {FieldEnergy} |-> v] : v \in FreeValues }

FreeOrderInputs ==
    { [rows |-> rows, fields |-> <<FieldEnergy>>] :
        rows \in SeqsUpTo(FreeRows, MaxFreeRows) }

\* most distinct words of a column of words
MaxWords == 11

FieldTag == <<"t", "a", "g">>

WordList == <<"a", "c", "e", "g", "i", "l", "o", "q", "r", "s", "u", "x">>

\* m rows holding the first m words, then extra rows repeating word j
WordRows(m, j, extra) ==
    [k \in 1..(m + extra) |->
        [f \in {FieldTag} |-> IF k <= m THEN <<WordList[k]>> ELSE <<WordList[j]>>]]

WordInputs ==
    { [rows |-> WordRows(m, j, extra), fields |-> <<FieldTag>>] :
        m \in (MaxWords - 2)..MaxWords, j \in 1..(MaxWords - 2), extra \in 0..2 }
    \cup { [rows |-> WordRows(m, m, extra), fields |-> <<FieldTag>>] :
             m \in (MaxWords - 2)..MaxWords, extra \in 0..2 }

PipeInputs ==
    OneColumnInputs \cup TwoColumnInputs \cup FreeOrderInputs \cup WordInputs

\* frequency limits always given; each data_quality key given or left to its default
RadioParams == [min_frequency_hz |-> Rat(5, 1), max_frequency_hz |-> Rat(50, 1)]

ConfigWith(data_quality) ==
    [thresholds |-> [data_quality |-> data_quality, radio_frequency |-> RadioParams]]

Configs ==
    { ConfigWith(EmptyDict),
      ConfigWith([min_sample_size |-> 2]),
      ConfigWith([min_completeness |-> <<1, 2>>]),
      ConfigWith([min_sample_size |-> 2, min_completeness |-> <<1, 2>>]),
      ConfigWith([min_sample_size |-> 0, min_completeness |-> <<0, 1>>,
                  max_outlier_ratio |-> <<1, 2>>]) }

InitIntake ==
    /\ MergeIdle
    /\ RunnerIdle
    /\ ipc = "detect"
    /\ \E input \in PipeInputs : data = input.rows /\ fieldnames = input.fields
    /\ config \in Configs
    /\ column_types = EmptyDict
    /\ type_warnings = <<>>
    /\ stats = EmptyDict
    /\ validation_issues = <<>>
    /\ validation_result = FALSE
    /\ validation_messages = <<>>
    /\ pass_no = 1
    /\ first_pass = <<>>

(***************************************************************************)
(* Runs over tables of about a hundred rows with the default thresholds    *)
(***************************************************************************)
ScenarioValues ==
    { <<"1">>, <<"7">>, <<"-", "3">>, <<"2", ".", "5">>, <<"n", "a", "n">>,
      <<"i", "n", "f">>, <<"0", "0", "0", "0", "0", "2", ".", "5">> }

\* a few rows of one value, then about SampleCap rows of another
ScenarioInputs ==
    { [rows |-> TwoRuns(field, a, r[1], b, r[2]), fields |-> <<field>>] :
        field \in {FieldA, FieldEnergy}, a \in ScenarioValues, b \in ScenarioValues,
        r \in (0..MaxLead) \X {SampleCap - 1, SampleCap, SampleCap + 1} }

InitScenario ==
    /\ MergeIdle
    /\ RunnerIdle
    /\ ipc = "detect"
    /\ \E input \in ScenarioInputs : data = input.rows /\ fieldnames = input.fields
    /\ config = DefaultConfig
    /\ column_types = EmptyDict
    /\ type_warnings = <<>>
    /\ stats = EmptyDict
    /\ validation_issues = <<>>
    /\ validation_result = FALSE
    /\ validation_messages = <<>>
    /\ pass_no = 1
    /\ first_pass = <<>>

\* main, line 740: stats = calculate_statistics(data, fieldnames, column_types)
CalculateStatistics ==
    /\ ipc = "stats"
    /\ ipc' = "ranges"
    /\ stats' = calculate_statistics(data, fieldnames, column_types)
    /\ UNCHANGED <<data, fieldnames, config, column_types, type_warnings,
                   validation_issues, validation_result, validation_messages,
                   mergeVars, repeatVars, runnerVars>>

\* main, line 744: validation_issues = validate_numeric_ranges(...)
ValidateNumericRanges ==
    /\ ipc = "ranges"
    /\ ipc' = "validate"
    /\ validation_issues' =
          validate_numeric_ranges(data, fieldnames, column_types, config)
    /\ UNCHANGED <<data, fieldnames, config, column_types, type_warnings, stats,
                   validation_result, validation_messages, mergeVars, repeatVars, runnerVars>>

\* mutant: the messages are added to the list the previous call left behind
ValidateData_Accumulates ==
    /\ ipc = "validate"
    /\ ipc' = "end"
    /\ LET r == validate_data(data, stats, config, validation_issues) IN
         /\ validation_result' = r.passed
         /\ validation_messages' = validation_messages \o r.messages
         /\ stats' = IF data = <<>> THEN stats
                     ELSE With(stats, "validation_messages", r.messages)
    /\ UNCHANGED <<data, fieldnames, config, column_types, type_warnings,
                   validation_issues, mergeVars, repeatVars, runnerVars>>

\* main, line 747: validation_result, validation_messages = validate_data(...);
\* validate_data stores the messages in stats (line 505) unless data is empty
ValidateData ==
    /\ ipc = "validate"
    /\ ipc' = "end"
    /\ LET r == validate_data(data, stats, config, validation_issues) IN
         /\ validation_result' = r.passed
         /\ validation_messages' = r.messages
         /\ stats' = IF data = <<>> THEN stats
                     ELSE With(stats, "validation_messages", r.messages)
    /\ UNCHANGED <<data, fieldnames, config, column_types, type_warnings,
                   validation_issues, mergeVars, repeatVars, runnerVars>>

NextIntake ==
    DetectColumnTypes \/ CalculateStatistics \/ ValidateNumericRanges \/ ValidateData

SpecIntake == InitIntake /\ [][NextIntake]_vars

\* the three stages are called a second time with the same data, fieldnames
\* and config, after the first pass returned or raised; what the first pass
\* returned is kept for comparison
SecondRun ==
    /\ ipc \in {"end", "raised"}
    /\ pass_no = 1
    /\ pass_no' = 2
    /\ first_pass' = [ipc |-> ipc, column_types |-> column_types,
                      type_warnings |-> type_warnings, stats |-> stats,
                      validation_issues |-> validation_issues,
                      validation_result |-> validation_result,
                      validation_messages |-> validation_messages]
    /\ ipc' = "detect"
    /\ UNCHANGED <<data, fieldnames, config, column_types, type_warnings, stats,
                   validation_issues, validation_result, validation_messages,
                   mergeVars, runnerVars>>

NextTwice == NextIntake \/ SecondRun

SpecTwice == InitIntake /\ [][NextTwice]_vars

SpecScenario == InitScenario /\ [][NextIntake]_vars

(***************************************************************************)
(* experiment_runner.py: ExperimentRunner.run and stop                     *)
(***************************************************************************)
MaxIterations == 3

MaxRunCalls == 2

\* the values of the iterations argument; range(iterations) is empty for
\* a negative one
IterationArgs == (0 - 1)..MaxIterations

InitRunner == MergeIdle /\ IntakeIdle /\ RunnerIdle

\* run(iterations), line 47: self.is_running = True, then the loop is entered
Run ==
    /\ rpc \in {"idle", "returned"}
    /\ run_calls < MaxRunCalls
    /\ \E n \in IterationArgs : iterations' = n
    /\ run_calls' = run_calls + 1
    /\ is_running' = TRUE
    /\ loop_i' = 0
    /\ count_at_start' = iteration_count
    /\ errors_at_start' = error_count
    /\ finalize_calls' = 0
    /\ stop_called' = FALSE
    /\ interrupted' = FALSE
    /\ rpc' = "loop"
    /\ UNCHANGED <<iteration_count, error_count, mergeVars, intakeVars, repeatVars>>

\* lines 51-55: range has a next i and is_running holds: the inner try begins
StartIteration ==
    /\ rpc = "loop"
    /\ loop_i < iterations
    /\ is_running
    /\ rpc' = "iter"
    /\ UNCHANGED <<is_running, iteration_count, error_count, iterations, loop_i,
                   run_calls, count_at_start, errors_at_start, finalize_calls,
                   stop_called, interrupted, mergeVars, intakeVars, repeatVars>>

\* lines 51-53: range is exhausted, or is_running is False and the loop breaks
LeaveLoop ==
    /\ rpc = "loop"
    /\ ~(loop_i < iterations /\ is_running)
    /\ rpc' = "finally"
    /\ UNCHANGED <<is_running, iteration_count, error_count, iterations, loop_i,
                   run_calls, count_at_start, errors_at_start, finalize_calls,
                   stop_called, interrupted, mergeVars, intakeVars, repeatVars>>

\* lines 57-66: run_iteration and log_data return, iteration_count += 1
IterationSucceeds ==
    /\ rpc = "iter"
    /\ iteration_count' = iteration_count + 1
    /\ rpc' = "sleep"
    /\ UNCHANGED <<is_running, error_count, iterations, loop_i, run_calls,
                   count_at_start, errors_at_start, finalize_calls, stop_called,
                   interrupted, mergeVars, intakeVars, repeatVars>>

\* mutant: an exception inside the iteration ends the loop
IterationFails_EndsLoop ==
    /\ rpc = "iter"
    /\ error_count' = error_count + 1
    /\ rpc' = "finally"
    /\ UNCHANGED <<is_running, iteration_count, iterations, loop_i, run_calls,
                   count_at_start, errors_at_start, finalize_calls, stop_called,
                   interrupted, mergeVars, intakeVars, repeatVars>>

\* lines 68-75: run_iteration or log_data raises an Exception, which is
\* caught: error_count += 1 and the error is logged
IterationFails ==
    /\ rpc = "iter"
    /\ error_count' = error_count + 1
    /\ rpc' = "sleep"
    /\ UNCHANGED <<is_running, iteration_count, iterations, loop_i, run_calls,
                   count_at_start, errors_at_start, finalize_calls, stop_called,
                   interrupted, mergeVars, intakeVars, repeatVars>>

\* line 78: time.sleep(delay) returns and the loop takes the next i
Sleep ==
    /\ rpc = "sleep"
    /\ loop_i' = loop_i + 1
    /\ rpc' = "loop"
    /\ UNCHANGED <<is_running, iteration_count, error_count, iterations, run_calls,
                   count_at_start, errors_at_start, finalize_calls, stop_called,
                   interrupted, mergeVars, intakeVars, repeatVars>>

\* lines 80-81: a KeyboardInterrupt arrives anywhere inside the outer try; the
\* inner except Exception does not catch it, the outer handler logs it
KeyboardInterrupt ==
    /\ rpc \in {"loop", "iter", "sleep"}
    /\ interrupted' = TRUE
    /\ rpc' = "finally"
    /\ UNCHANGED <<is_running, iteration_count, error_count, iterations, loop_i,
                   run_calls, count_at_start, errors_at_start, finalize_calls,
                   stop_called, mergeVars, intakeVars, repeatVars>>

\* lines 83-85: self.is_running = False, self._finalize(), and run returns
Finally ==
    /\ rpc = "finally"
    /\ is_running' = FALSE
    /\ finalize_calls' = finalize_calls + 1
    /\ rpc' = "returned"
    /\ UNCHANGED <<iteration_count, error_count, iterations, loop_i, run_calls,
                   count_at_start, errors_at_start, stop_called, interrupted,
                   mergeVars, intakeVars, repeatVars>>

\* stop(), line 106, called by run_iteration or by another thread while run is
\* between line 47 and its return
Stop ==
    /\ rpc \in {"loop", "iter", "sleep", "finally"}
    /\ is_running' = FALSE
    /\ stop_called' = TRUE
    /\ UNCHANGED <<rpc, iteration_count, error_count, iterations, loop_i,
                   run_calls, count_at_start, errors_at_start, finalize_calls,
                   interrupted, mergeVars, intakeVars, repeatVars>>

NextRunner ==
    \/ Run \/ StartIteration \/ LeaveLoop \/ IterationSucceeds \/ IterationFails
    \/ Sleep \/ KeyboardInterrupt \/ Finally \/ Stop

SpecRunner == InitRunner /\ [][NextRunner]_vars

(***************************************************************************)
(* Properties of the capsule merge                                         *)
(***************************************************************************)
Core(e) == <<e["status"], e["timestamp_utc"], e["hash"]>>

\* the entries of all_capsules folded so far
Folded == SubSeq(all_capsules, 1, i)

IndicesOf(capsules, cid) ==
    { k \in 1..Len(capsules) : capsules[k].capsule["capsule_id"] = cid }

\* C1: of two admitted records of one id, one green and one not, the green
\* one is the winner in both presentation orders, whatever the timestamps.
C1_GreenWinsBothOrders ==
    (pc = "done" /\ Len(all_capsules) = 2) =>
        LET a == all_capsules[1]
            b == all_capsules[2]
            cid == a.capsule["capsule_id"]
        IN  (/\ b.capsule["capsule_id"] = cid
             /\ a.capsule["status"] = "green"
             /\ b.capsule["status"] # "green") =>
                /\ Core(master_index[cid]) = Core(a.capsule)
                /\ Core(merge_capsules(<<b, a>>)[cid]) = Core(a.capsule)

\* the sequence s reordered by the permutation p of its indices
Permuted(s, p) == [k \in 1..Len(s) |-> s[p[k]]]

\* C2: folding the admitted records of one id in any permutation of the input
\* order yields the same core fields (status, timestamp_utc, hash).
C2_CoreOrderIndependent ==
    (pc = "done" /\ all_capsules # <<>>) =>
        LET cid == all_capsules[1].capsule["capsule_id"] IN
        (IndicesOf(all_capsules, cid) = 1..Len(all_capsules)) =>
            \A p \in Permutations(1..Len(all_capsules)) :
                Core(merge_capsules(Permuted(all_capsules, p))[cid])
                    = Core(master_index[cid])

\* a record carrying capsule_id, timestamp_utc, status and hash
HasFourFields(e) ==
    /\ "capsule_id" \in DOMAIN e.capsule
    /\ "timestamp_utc" \in DOMAIN e.capsule
    /\ "status" \in DOMAIN e.capsule
    /\ "hash" \in DOMAIN e.capsule

Complete == SelectSeq(scanned, HasFourFields)

\* C3: a record lacking a required field never reaches the Master Index: only
\* complete records are admitted, every entry's winner and every tag come from
\* complete records of that id, and the final index is the merge of the
\* complete records alone.
C3_IncompleteNeverContributes ==
    /\ \A k \in 1..Len(all_capsules) : HasFourFields(all_capsules[k])
    /\ \A cid \in DOMAIN master_index :
          /\ \E k \in IndicesOf(Complete, cid) :
                /\ Core(master_index[cid]) = Core(Complete[k].capsule)
                /\ master_index[cid]["manifest_path"] = Complete[k].path
          /\ TagsOf(master_index[cid]) \subseteq
                UNION { TagsOf(Complete[k].capsule) : k \in IndicesOf(Complete, cid) }
    /\ pc = "done" =>
          /\ master_index = merge_capsules(Complete)
          /\ DOMAIN master_index =
                { Complete[k].capsule["capsule_id"] : k \in 1..Len(Complete) }

\* C3 witness: a record without status is the only one of c3, a record without
\* hash carries tag w for c1; the index has c1 without w and has no c3.
C3_Witness ==
    /\ pc = "done"
    /\ \E k \in 1..Len(scanned) :
          /\ "status" \notin DOMAIN scanned[k].capsule
          /\ scanned[k].capsule["capsule_id"] = "c3"
    /\ \E k \in 1..Len(scanned) :
          /\ "hash" \notin DOMAIN scanned[k].capsule
          /\ scanned[k].capsule["capsule_id"] = "c1"
    /\ "c1" \in DOMAIN master_index
    /\ "c3" \notin DOMAIN master_index
    /\ "w" \notin TagsOf(master_index["c1"])

\* C4: the index has exactly one entry per id folded so far, and an id with a
\* single folded record maps to that record's fields plus its provenance.
C4_OneEntryPerId ==
    /\ pc = "scan" => master_index = EmptyDict
    /\ pc # "scan" =>
          /\ DOMAIN master_index =
                { Folded[k].capsule["capsule_id"] : k \in 1..i }
          /\ \A cid \in DOMAIN master_index :
                \A k \in IndicesOf(Folded, cid) :
                    (IndicesOf(Folded, cid) = {k}) =>
                        LET e == master_index[cid]
                            c == Folded[k].capsule
                        IN  /\ DOMAIN e = DOMAIN c \cup {"source_repo", "manifest_path"}
                            /\ \A f \in DOMAIN c : e[f] = c[f]
                            /\ e["source_repo"] = Folded[k].repo
                            /\ e["manifest_path"] = Folded[k].path

\* C4 witness: two ids in the final index, c2 from one record, c1 from two.
C4_Witness ==
    /\ pc = "done"
    /\ DOMAIN master_index = {"c1", "c2"}
    /\ Cardinality(IndicesOf(all_capsules, "c2")) = 1
    /\ Cardinality(IndicesOf(all_capsules, "c1")) = 2

\* the record at position k of Folded would replace the record at position w
Outranks(k, w) ==
    \/ Folded[k].capsule["status"] = "green" /\ Folded[w].capsule["status"] # "green"
    \/ StrLess(Folded[k].capsule["timestamp_utc"], Folded[w].capsule["timestamp_utc"])

\* C5: when no record after the first of an id replaces the winner, the entry's
\* tags are the union of the tags of all records folded for the id; a
\* replacement discards the tags accumulated so far, so in general the tags are
\* those of the current winner and of the records of the id folded after it.
C5_TagsUnion ==
    \A cid \in DOMAIN master_index :
        LET ks == IndicesOf(Folded, cid)
            first == CHOOSE k \in ks : \A j \in ks : k <= j
            w == CHOOSE k \in ks : Folded[k].path = master_index[cid]["manifest_path"]
        IN  /\ (\A k \in ks \ {first} : ~Outranks(k, first)) =>
                  TagsOf(master_index[cid]) =
                      UNION { TagsOf(Folded[k].capsule) : k \in ks }
            /\ TagsOf(master_index[cid]) =
                  UNION { TagsOf(Folded[k].capsule) : k \in { j \in ks : j >= w } }

\* C5 witness: three records of c1 folded without a replacement, tags united.
C5_Witness ==
    /\ pc = "done"
    /\ Len(all_capsules) = 3
    /\ IndicesOf(all_capsules, "c1") = {1, 2, 3}
    /\ master_index["c1"]["manifest_path"] = all_capsules[1].path
    /\ all_capsules[1].capsule["status"] = "green"
    /\ all_capsules[2].capsule["status"] = "red"
    /\ TagsOf(master_index["c1"]) = {"x", "y"}

(***************************************************************************)
(* Properties of the three merge rules                                     *)
(***************************************************************************)
\* the record the next iteration of the loop folds, and its id
Candidate == all_capsules[i + 1]

CandidateId == Candidate.capsule["capsule_id"]

\* the next iteration folds a record whose id has an entry already
MeetsWinner ==
    pc = "merge" /\ i < Len(all_capsules) /\ CandidateId \in DOMAIN master_index

\* the candidate is green and the current winner is not
GreenMeetsOther ==
    /\ MeetsWinner
    /\ Candidate.capsule["status"] = "green"
    /\ master_index[CandidateId]["status"] # "green"

\* rule 1 does not apply and the candidate's timestamp precedes the winner's
OlderMeetsWinner ==
    /\ MeetsWinner /\ ~GreenMeetsOther
    /\ StrLess(Candidate.capsule["timestamp_utc"],
               master_index[CandidateId]["timestamp_utc"])

\* neither rule 1 nor rule 2 applies
WinnerStays == MeetsWinner /\ ~GreenMeetsOther /\ ~OlderMeetsWinner

\* entry is the record's fields with the record's provenance and nothing else
ExactlyRecord(entry, record) ==
    /\ DOMAIN entry = DOMAIN record.capsule \cup {"source_repo", "manifest_path"}
    /\ \A k \in DOMAIN record.capsule : entry[k] = record.capsule[k]
    /\ entry["source_repo"] = record.repo
    /\ entry["manifest_path"] = record.path

\* the record folded last, its id, and the index as it was before that
Last == all_capsules[i]

LastId == Last.capsule["capsule_id"]

Before == merge_capsules(SubSeq(all_capsules, 1, i - 1))

\* the last iteration folded a record whose id had an entry
MetWinner == pc = "merge" /\ i >= 2 /\ LastId \in DOMAIN Before

\* C24: a green candidate that meets a winner that is not green becomes the
\* entry: the entry has exactly the candidate's fields with the candidate's
\* source_repo and manifest_path, and nothing of the previous winner, its tags
\* and the tags it had accumulated included, survives
C24_GreenReplacesTotally ==
    [][GreenMeetsOther =>
          ExactlyRecord(master_index'[CandidateId], Candidate)]_vars

\* a green record replaced a winner that had accumulated two tags, one of
\* them not a tag of the green record
C24_Witness ==
    /\ MetWinner
    /\ Last.capsule["status"] = "green"
    /\ Before[LastId]["status"] # "green"
    /\ Cardinality(TagsOf(Before[LastId])) = 2
    /\ ~(TagsOf(Before[LastId]) \subseteq TagsOf(Last.capsule))
    /\ TagsOf(master_index[LastId]) = TagsOf(Last.capsule)

\* the fields of the winner other than tags
Untagged(entry) == [k \in DOMAIN entry \ {"tags"} |-> entry[k]]

\* C25: when rule 1 does not apply, a candidate whose timestamp_utc is smaller
\* in string order replaces the winner totally, whatever the two statuses, and
\* a candidate whose timestamp_utc equals the winner's leaves the winner in
\* place
C25_OlderReplacesEqualStays ==
    [][/\ OlderMeetsWinner =>
            ExactlyRecord(master_index'[CandidateId], Candidate)
       /\ (/\ MeetsWinner /\ ~GreenMeetsOther
           /\ Candidate.capsule["timestamp_utc"] =
                  master_index[CandidateId]["timestamp_utc"]) =>
            Untagged(master_index'[CandidateId]) = Untagged(master_index[CandidateId])]_vars

\* a record that is not green replaced a green winner with a later timestamp
C25_Witness ==
    /\ MetWinner
    /\ Last.capsule["status"] # "green"
    /\ Before[LastId]["status"] = "green"
    /\ StrLess(Last.capsule["timestamp_utc"], Before[LastId]["timestamp_utc"])
    /\ master_index[LastId]["manifest_path"] = Last.path

\* C26: when neither rule 1 nor rule 2 applies the entry keeps every field of
\* the winner except tags, which becomes the union of the winner's and the
\* candidate's tags, a missing tags field counting as empty; the entries of the
\* other ids are untouched
C26_WinnerKeptTagsUnioned ==
    [][WinnerStays =>
          /\ DOMAIN master_index' = DOMAIN master_index
          /\ \A cid \in DOMAIN master_index \ {CandidateId} :
               master_index'[cid] = master_index[cid]
          /\ Untagged(master_index'[CandidateId]) = Untagged(master_index[CandidateId])
          /\ master_index'[CandidateId]["tags"] =
               TagsOf(master_index[CandidateId]) \cup TagsOf(Candidate.capsule)]_vars

\* a winner without a tags field was kept and got the tags of a later record,
\* while the index held an entry for another id
C26_Witness ==
    /\ MetWinner
    /\ "tags" \notin DOMAIN Before[LastId]
    /\ Untagged(master_index[LastId]) = Untagged(Before[LastId])
    /\ master_index[LastId]["tags"] = TagsOf(Last.capsule)
    /\ TagsOf(Last.capsule) # {}
    /\ DOMAIN Before # {LastId}

\* C27: after any prefix of the input, an entry's source_repo and
\* manifest_path are those of a folded record of its id whose status,
\* timestamp_utc and hash the entry carries
C27_ProvenanceFollowsCore ==
    \A cid \in DOMAIN master_index :
        \E k \in IndicesOf(Folded, cid) :
            /\ Core(Folded[k].capsule) = Core(master_index[cid])
            /\ master_index[cid]["source_repo"] = Folded[k].repo
            /\ master_index[cid]["manifest_path"] = Folded[k].path

\* the entry of an id was replaced by the second record and kept, with its
\* provenance, through a tag union with the third
C27_Witness ==
    /\ pc = "merge" /\ i = 3
    /\ IndicesOf(Folded, LastId) = {1, 2, 3}
    /\ master_index[LastId]["manifest_path"] = Folded[2].path
    /\ Core(Folded[2].capsule) # Core(Folded[1].capsule)
    /\ Core(Folded[3].capsule) # Core(Folded[2].capsule)

\* the folded records of the id are all green or all not green
OneClass(cid) ==
    \/ \A k \in IndicesOf(Folded, cid) : Folded[k].capsule["status"] = "green"
    \/ \A k \in IndicesOf(Folded, cid) : Folded[k].capsule["status"] # "green"

\* the first folded record of the id no record of the id has a smaller
\* timestamp than
FirstOldest(cid) ==
    CHOOSE k \in IndicesOf(Folded, cid) :
        /\ \A j \in IndicesOf(Folded, cid) :
             ~StrLess(Folded[j].capsule["timestamp_utc"],
                      Folded[k].capsule["timestamp_utc"])
        /\ \A j \in IndicesOf(Folded, cid) :
             j < k => Folded[j].capsule["timestamp_utc"] #
                          Folded[k].capsule["timestamp_utc"]

\* C28: when the folded records of an id are all green or all not green, the
\* winner is a record with the smallest timestamp_utc, and of the records with
\* that timestamp the one folded first, in whatever order they came
C28_OldestOfOneClassWins ==
    \A cid \in DOMAIN master_index :
        OneClass(cid) =>
            /\ Core(master_index[cid]) = Core(Folded[FirstOldest(cid)].capsule)
            /\ master_index[cid]["manifest_path"] = Folded[FirstOldest(cid)].path

\* three records of one class were folded, the oldest timestamp held by the
\* second and the third, and the second won
C28_Witness ==
    /\ pc = "done" /\ Len(Folded) = 3
    /\ IndicesOf(Folded, LastId) = {1, 2, 3}
    /\ OneClass(LastId)
    /\ FirstOldest(LastId) = 2
    /\ Folded[3].capsule["timestamp_utc"] = Folded[2].capsule["timestamp_utc"]
    /\ master_index[LastId]["manifest_path"] = Folded[2].path

(***************************************************************************)
(* Properties of type inference                                            *)
(***************************************************************************)
FieldSet == { fieldnames[k] : k \in 1..Len(fieldnames) }

\* detect_column_types has returned descriptors for a table with rows
Detected == ipc \notin {"idle", "detect", "raised"} /\ data # <<>>

\* how many values of the sample satisfy Test
HowMany(sample, Test(_)) ==
    Cardinality({ k \in 1..Len(sample) : Test(sample[k]) })

\* the type the decision list of section 4.1 gives a non-empty sample
ListedType(sample) ==
    LET n == Len(sample)
        b == HowMany(sample, IsBoolToken)
        d == HowMany(sample, IsDateLike)
        g == HowMany(sample, IsInteger)
        m == HowMany(sample, IsNumeric)
        u == Cardinality({ sample[k] : k \in 1..n })
    IN  CASE 10 * b > 9 * n -> "boolean"
          [] 10 * b <= 9 * n /\ 10 * d > 8 * n -> "datetime"
          [] 10 * b <= 9 * n /\ 10 * d <= 8 * n /\ 10 * g > 9 * n -> "integer"
          [] 10 * b <= 9 * n /\ 10 * d <= 8 * n /\ 10 * g <= 9 * n
               /\ 10 * m > 8 * n -> "numeric"
          [] 10 * b <= 9 * n /\ 10 * d <= 8 * n /\ 10 * g <= 9 * n
               /\ 10 * m <= 8 * n /\ 10 * m > 3 * n -> "mixed"
          [] 10 * b <= 9 * n /\ 10 * d <= 8 * n /\ 10 * g <= 9 * n
               /\ 10 * m <= 3 * n /\ 10 * u > 9 * n -> "categorical_high"
          [] OTHER -> "categorical"

\* C9: a column with a non-empty sample gets the type of the first matching
\* rule of the list boolean > 0.9, datetime > 0.8, integer > 0.9, numeric >
\* 0.8, mixed > 0.3, categorical_high > 0.9 unique, else categorical, every
\* threshold strict and every ratio taken over the sample.
C9_FirstMatchingRule ==
    Detected =>
        \A f \in FieldSet :
            LET sample == SampleValues(data, f) IN
            sample # <<>> => column_types[f].type = ListedType(sample)

\* C9 witness: ten sampled values, nine of them boolean tokens (ratio exactly
\* 0.9) and all of them integers: the column is integer, not boolean.
C9_Witness ==
    /\ Detected
    /\ LET sample == SampleValues(data, FieldA) IN
         /\ Len(sample) = 10
         /\ HowMany(sample, IsBoolToken) = 9
         /\ HowMany(sample, IsInteger) = 10
    /\ column_types[FieldA].type = "integer"

\* the non-empty values of a whole column, in row order
NonEmptyValues(rows, f) == SelectSeq(ColumnOf(rows, f), NonEmpty)

\* C10: the sample of a column is the first min(100, k) of its k non-empty
\* values, so its size is min(100, k) wherever the empty values are.
C10_SampleIsFirstNonEmpty ==
    Detected =>
        \A f \in FieldSet :
            LET k == Len(NonEmptyValues(data, f)) IN
            column_types[f].sample_count = (IF k < 100 THEN k ELSE 100)

\* x = y for pairs <<numerator, denominator>> with positive denominators
PairEq(x, y) == x[1] * y[2] = y[1] * x[2]

\* the confidence lies in [0, 1]
UnitInterval(x) == 0 <= x[1] /\ x[1] <= x[2]

\* the ratio the decision list names for a type, over a non-empty sample
DecidingRatio(type, sample) ==
    LET n == Len(sample) IN
    CASE type = "boolean" -> <<HowMany(sample, IsBoolToken), n>>
      [] type = "datetime" -> <<HowMany(sample, IsDateLike), n>>
      [] type = "integer" -> <<HowMany(sample, IsInteger), n>>
      [] type \in {"numeric", "mixed"} -> <<HowMany(sample, IsNumeric), n>>
      [] OTHER -> <<n - HowMany(sample, IsNumeric), n>>

\* C11 as stated: the confidence of a descriptor is the ratio that triggered
\* the decision (boolean, date-like, integer ratio; the numeric ratio for
\* numeric and for mixed; 1 - numeric ratio for both categorical types) and
\* lies in [0, 1].
C11_ConfidenceIsDecidingRatio ==
    Detected =>
        \A f \in FieldSet :
            LET sample == SampleValues(data, f)
                d == column_types[f]
            IN  /\ UnitInterval(d.confidence)
                /\ sample # <<>> =>
                       PairEq(d.confidence, DecidingRatio(d.type, sample))

\* C11 amended: the confidence of a descriptor is the boolean, date-like or
\* integer ratio for boolean, datetime and integer, the numeric ratio for
\* numeric, 1 - numeric ratio for both categorical types, and the constant 0.5
\* for mixed; it lies in [0, 1].
C11_ConfidenceIsDecidingRatioOrHalf ==
    Detected =>
        \A f \in FieldSet :
            LET sample == SampleValues(data, f)
                d == column_types[f]
            IN  /\ UnitInterval(d.confidence)
                /\ sample # <<>> =>
                       IF d.type = "mixed" THEN PairEq(d.confidence, <<1, 2>>)
                       ELSE PairEq(d.confidence, DecidingRatio(d.type, sample))

\* C11 witness: a mixed column whose numeric ratio is 2/3
C11_Witness ==
    /\ Detected
    /\ column_types[FieldA].type = "mixed"
    /\ LET sample == SampleValues(data, FieldA) IN
         Len(sample) = 3 /\ HowMany(sample, IsNumeric) = 2

\* the warnings emitted for a field
WarningsFor(f) ==
    Cardinality({ k \in 1..Len(type_warnings) : type_warnings[k].field = f })

\* numeric ratio in (0.3, 0.8] and none of the boolean, datetime and integer
\* rules matches
MixedCase(sample) ==
    LET n == Len(sample)
        m == HowMany(sample, IsNumeric)
    IN  /\ n > 0
        /\ 10 * m > 3 * n /\ 10 * m <= 8 * n
        /\ 10 * HowMany(sample, IsBoolToken) <= 9 * n
        /\ 10 * HowMany(sample, IsDateLike) <= 8 * n
        /\ 10 * HowMany(sample, IsInteger) <= 9 * n

\* C12: a column whose sample has numeric ratio in (0.3, 0.8] and matches none
\* of the boolean, datetime and integer rules is mixed with confidence 0.5 and
\* gets exactly one warning; a boolean, datetime, integer, numeric or
\* categorical column gets no warning.
C12_MixedWarnsOnce ==
    Detected =>
        \A f \in FieldSet :
            LET d == column_types[f] IN
            /\ MixedCase(SampleValues(data, f)) =>
                   /\ d.type = "mixed"
                   /\ d.confidence = <<1, 2>>
                   /\ WarningsFor(f) = 1
            /\ d.type \in {"boolean", "datetime", "integer", "numeric",
                           "categorical"} => WarningsFor(f) = 0

\* C12 witness: two numbers and one word, as in the rows 1, 2, x: one warning
C12_Witness ==
    /\ Detected
    /\ MixedCase(SampleValues(data, FieldA))
    /\ Len(data) = 3
    /\ type_warnings = << [kind |-> "mixed", field |-> FieldA] >>

\* detect_column_types was called and has returned or raised
DetectCalled == ipc \notin {"idle", "detect"}

\* C13: for every table, also one without rows, type inference returns a
\* descriptor for every column, and a column without a non-empty sampled value
\* gets type empty, confidence 1.0 and sample_count 0.
C13_DescriptorForEveryColumn ==
    DetectCalled =>
        \A f \in FieldSet :
            /\ f \in DOMAIN column_types
            /\ SampleValues(data, f) = <<>> =>
                   column_types[f] = [type |-> "empty", confidence |-> <<1, 1>>,
                                      sample_count |-> 0]

\* C14: type inference never raises, whatever the raw text values are.
C14_NeverRaises == ipc # "raised"

\* C29: a column whose sampled values all parse as floats is classified
\* boolean, integer or numeric, never datetime, mixed, categorical or
\* categorical_high
C29_FloatColumnIsNumeric ==
    Detected =>
        \A f \in FieldSet :
            (/\ SampleValues(data, f) # <<>>
             /\ \A k \in 1..Len(SampleValues(data, f)) :
                  IsNumeric(SampleValues(data, f)[k]))
            => column_types[f].type \in {"boolean", "integer", "numeric"}

(***************************************************************************)
(* Properties of the statistical profiler                                  *)
(***************************************************************************)
\* calculate_statistics has returned the profile of a table with rows
Profiled == ipc \in {"ranges", "validate", "end"} /\ data # <<>>

\* the numeric and integer columns with at least one parsed value
ParsedColumns ==
    { f \in FieldSet : /\ stats.columns[f].type \in {"numeric", "integer"}
                       /\ stats.columns[f].count > 0 }

\* a <= b on floats: false when either is nan
RLeq(a, b) == a.den # 0 /\ b.den # 0 /\ a.num * b.den <= b.num * a.den

\* C15: in the profile of a numeric or integer column with a parsed value,
\* min <= p5 <= q1 <= median <= q3 <= p95 <= max and iqr = q3 - q1 >= 0, and
\* each index floor(f * n) lies in 0..n-1.
C15_OrderStatisticsOrdered ==
    Profiled =>
        \A f \in ParsedColumns :
            LET p == stats.columns[f] IN
            /\ RLeq(p.min, p.p5) /\ RLeq(p.p5, p.q1) /\ RLeq(p.q1, p.median)
            /\ RLeq(p.median, p.q3) /\ RLeq(p.q3, p.p95) /\ RLeq(p.p95, p.max)
            /\ p.iqr = RSub(p.q3, p.q1)
            /\ RLeq(Rat(0, 1), p.iqr)
            /\ \A pct \in {5, 25, 50, 75, 95} :
                   (pct * p.count) \div 100 \in 0..(p.count - 1)

\* v lies outside [q1 - k * iqr, q3 + k * iqr] of profile p, with 2 * k = twice_k
Beyond(v, p, twice_k) ==
    \/ RLess(v, RSub(p.q1, RScale(twice_k, 2, p.iqr)))
    \/ RLess(RAdd(p.q3, RScale(twice_k, 2, p.iqr)), v)

\* C16: in the profile of a numeric or integer column, extreme_outliers <=
\* outliers <= count; both count parsed values only, and a parsed value beyond
\* the 3 * iqr fences is also beyond the 1.5 * iqr fences.
C16_ExtremeWithinOutliers ==
    Profiled =>
        \A f \in ParsedColumns :
            LET p == stats.columns[f]
                parsed == NumericValues(data, f)
            IN  /\ p.extreme_outliers <= p.outliers
                /\ p.outliers <= p.count
                /\ p.count = Len(parsed)
                /\ p.outliers =
                      Cardinality({ k \in 1..Len(parsed) : Beyond(parsed[k], p, 3) })
                /\ p.extreme_outliers =
                      Cardinality({ k \in 1..Len(parsed) : Beyond(parsed[k], p, 6) })
                /\ \A k \in 1..Len(parsed) :
                       Beyond(parsed[k], p, 6) => Beyond(parsed[k], p, 3)

\* C16 witness: a column with a positive iqr and an outlier that is not extreme
C16_Witness ==
    /\ Profiled
    /\ \E f \in ParsedColumns :
           /\ RLess(Rat(0, 1), stats.columns[f].iqr)
           /\ stats.columns[f].outliers = 1
           /\ stats.columns[f].extreme_outliers = 0

\* sum of s[1..n]
RECURSIVE SumTo(_, _)
SumTo(s, n) == IF n = 0 THEN 0 ELSE s[n] + SumTo(s, n - 1)

\* the number of values a profile was computed from: count of a numeric or
\* integer column, the sum of the value frequencies of any other column
ValuesUsed(f) ==
    IF stats.columns[f].type \in {"numeric", "integer"}
    THEN stats.columns[f].count
    ELSE LET values == ColumnOf(data, f)
             keys == FirstSeen(values)
         IN  SumTo([k \in 1..Len(keys) |-> Occurrences(values, keys[k])], Len(keys))

\* every non-empty value of the column is a number
AllParse(f) ==
    \A k \in 1..Len(data) : data[k][f] # <<>> => IsNumeric(data[k][f])

\* C17: for every column, missing_count is the number of rows minus the number
\* of rows with a non-empty value; missing_count plus the number of values used
\* in profiling is at most the number of rows, and equal to it when every
\* non-missing value parses.
C17_MissingPlusUsed ==
    Profiled =>
        \A f \in FieldSet :
            /\ stats.missing_values[f] = Len(data) - Len(NonEmptyValues(data, f))
            /\ stats.missing_values[f] + ValuesUsed(f) <= stats.total_records
            /\ stats.total_records = Len(data)
            /\ AllParse(f) =>
                   stats.missing_values[f] + ValuesUsed(f) = stats.total_records

\* C17 witness: a numeric column with a value that does not parse, so that
\* missing_count + count is less than the number of rows
C17_Witness ==
    /\ Profiled
    /\ \E f \in ParsedColumns :
           /\ ~AllParse(f)
           /\ stats.missing_values[f] + stats.columns[f].count < stats.total_records

\* the columns profiled as other than numeric or integer
OtherColumns ==
    { f \in FieldSet : stats.columns[f].type \notin {"numeric", "integer"} }

\* C18: the cardinality of a non-numeric column is unique_count divided by the
\* number of its non-missing values, so it is 1 for a column whose non-missing
\* values are all distinct even when some rows are missing.
C18_CardinalityOverNonMissing ==
    Profiled =>
        \A f \in OtherColumns :
            LET present == Len(NonEmptyValues(data, f)) IN
            present > 0 =>
                PairEq(stats.columns[f].cardinality,
                       <<stats.columns[f].unique_count, present>>)

\* the row in which a value of column f is first seen
FirstRow(f, v) == Min({ k \in 1..Len(data) : data[k][f] = v })

\* how often a value occurs in column f
Frequency(f, v) == Cardinality({ k \in 1..Len(data) : data[k][f] = v })

\* the distinct non-missing values of column f
DistinctValues(f) == { data[k][f] : k \in 1..Len(data) } \ { <<>> }

\* C19: top_values of a non-numeric column holds at most 10 entries, sorted by
\* count descending with ties in first-seen order; no omitted value has a
\* larger count than a listed one, and the percentage of an entry is its count
\* over the number of all rows, times 100.
C19_TopValues ==
    Profiled =>
        \A f \in OtherColumns :
            LET top == stats.columns[f].top_values
                listed == { top[k].value : k \in 1..Len(top) }
            IN  /\ Len(top) <= 10
                /\ Len(top) < 10 => listed = DistinctValues(f)
                /\ listed \subseteq DistinctValues(f)
                /\ \A k \in 1..Len(top) :
                       /\ top[k].count = Frequency(f, top[k].value)
                       /\ PairEq(top[k].percentage, <<top[k].count * 100, Len(data)>>)
                /\ \A j, k \in 1..Len(top) :
                       j < k =>
                           \/ top[j].count > top[k].count
                           \/ /\ top[j].count = top[k].count
                              /\ FirstRow(f, top[j].value) < FirstRow(f, top[k].value)
                /\ \A v \in DistinctValues(f) \ listed :
                       \A k \in 1..Len(top) : Frequency(f, v) <= top[k].count

\* C19 witness: eleven distinct values; the one first seen last occurs twice,
\* is listed first, and a value that occurs once is omitted
C19_Witness ==
    /\ Profiled
    /\ \E f \in OtherColumns :
           LET top == stats.columns[f].top_values IN
           /\ Cardinality(DistinctValues(f)) = 11
           /\ Len(top) = 10
           /\ top[1].count = 2
           /\ FirstRow(f, top[1].value) = 11

\* the sum of the missing counts of all columns
TotalMissing ==
    Cardinality({ c \in (1..Len(data)) \X FieldSet : data[c[1]][c[2]] = <<>> })

\* the completeness messages of the run
CompletenessMessages ==
    SelectSeq(validation_messages, LAMBDA m : m.check = "completeness")

\* C20: for a table with rows the quality score is 1 - (sum of the missing
\* counts) / (rows * columns) and lies in [0, 1]; the completeness check fails,
\* with one error message and verdict fail, exactly when the score is below
\* min_completeness, and a score equal to the threshold passes.
C20_QualityScoreAndCompleteness ==
    (ipc = "end" /\ data # <<>>) =>
        LET cells == Len(data) * Cardinality(FieldSet)
            min_completeness == Get(Get(Get(config, "thresholds", EmptyDict),
                                        "data_quality", EmptyDict),
                                    "min_completeness", <<95, 100>>)
            below == stats.quality_score[1] * min_completeness[2]
                        < min_completeness[1] * stats.quality_score[2]
        IN  /\ PairEq(stats.quality_score, <<cells - TotalMissing, cells>>)
            /\ UnitInterval(stats.quality_score)
            /\ Len(CompletenessMessages) = 1
            /\ CompletenessMessages[1].level = "error" <=> below
            /\ below => ~validation_result

\* C20 witness: a table with a quality score of exactly min_completeness = 0.5,
\* which passes the completeness check
C20_Witness ==
    /\ ipc = "end" /\ data # <<>>
    /\ PairEq(stats.quality_score, <<1, 2>>)
    /\ Get(Get(Get(config, "thresholds", EmptyDict), "data_quality", EmptyDict),
           "min_completeness", <<95, 100>>) = <<1, 2>>
    /\ CompletenessMessages = << [level |-> "info", check |-> "completeness"] >>

(***************************************************************************)
(* Properties of the threshold validator                                   *)
(***************************************************************************)
\* validate_data has returned
Validated == ipc = "end"

DataQuality == Get(Get(config, "thresholds", EmptyDict), "data_quality", EmptyDict)

\* total_row_count >= min_sample_size
RowsEnough == Len(data) >= Get(DataQuality, "min_sample_size", 100)

\* quality_score >= min_completeness
CompleteEnough ==
    PairGeq(stats.quality_score, Get(DataQuality, "min_completeness", <<95, 100>>))

\* the numeric and integer columns hold more outliers than max_outlier_ratio allows
OutliersExceeded ==
    TotalOf(stats, "count") > 0
    /\ ~PairGeq(Get(DataQuality, "max_outlier_ratio", <<2, 100>>),
                <<TotalOf(stats, "outliers"), TotalOf(stats, "count")>>)

\* C6 as stated: the verdict is pass if and only if the table has at least
\* min_sample_size rows and its quality score is at least min_completeness,
\* whatever the outlier counts and the out-of-range counts are.
C6_VerdictIffRequiredChecks ==
    Validated => (validation_result <=> (RowsEnough /\ CompleteEnough))

\* C6 amended: for a table with at least one row the verdict is pass if and
\* only if the table has at least min_sample_size rows and its quality score is
\* at least min_completeness, whatever the outlier counts and the out-of-range
\* counts are; a table without rows fails under every configuration.
C6_VerdictIffRequiredChecksOfRows ==
    Validated =>
        IF data = <<>> THEN ~validation_result
        ELSE validation_result <=> (RowsEnough /\ CompleteEnough)

\* a passed run whose outlier ratio is exceeded and that has range issues
C6_Witness ==
    Validated /\ validation_result /\ OutliersExceeded /\ validation_issues # <<>>

\* C7: every message has the severity assigned to its check: info for a passed
\* required check, error for a failed sample-size or completeness check, and
\* warning for an exceeded outlier ratio or a range issue.
C7_SeverityAsAssigned ==
    Validated =>
        \A k \in 1..Len(validation_messages) :
            LET m == validation_messages[k] IN
            CASE m.check = "sample_size" ->
                     m.level = IF RowsEnough THEN "info" ELSE "error"
              [] m.check = "completeness" ->
                     m.level = IF CompleteEnough THEN "info" ELSE "error"
              [] m.check = "outlier_ratio" ->
                     OutliersExceeded => m.level = "warning"
              [] OTHER -> m.level = "warning"

\* position of a check in the fixed order
Rank(check) ==
    CASE check = "sample_size" -> 1
      [] check = "completeness" -> 2
      [] check = "outlier_ratio" -> 3
      [] OTHER -> 4

IsIssue(m) == m.check = "issue"

\* position of a field in fieldnames
FieldIndex(field) == Min({ k \in 1..Len(fieldnames) : fieldnames[k] = field })

\* sample-size message, completeness message, at most one outlier-ratio
\* message, then the range warnings column by column
InFixedOrder(messages) ==
    /\ Len(messages) >= 2
    /\ messages[1].check = "sample_size"
    /\ messages[2].check = "completeness"
    /\ \A j, k \in 1..Len(messages) :
           j < k => /\ Rank(messages[j].check) <= Rank(messages[k].check)
                    /\ Rank(messages[k].check) < 4 =>
                           messages[j].check # messages[k].check
    /\ LET warnings == SelectSeq(messages, IsIssue) IN
       /\ Len(warnings) = Len(validation_issues)
       /\ \A k \in 1..Len(warnings) : warnings[k].issue = validation_issues[k]
       /\ \A j, k \in 1..Len(warnings) :
              j < k => FieldIndex(warnings[j].issue.field)
                          <= FieldIndex(warnings[k].issue.field)

\* C8 as stated: the message list of every run is the sample-size message, the
\* completeness message, the outlier-ratio message if any and the range
\* warnings in column order; the first two are always present.
C8_FixedMessageOrder == Validated => InFixedOrder(validation_messages)

\* C8 amended: the message list of every run over a table with at least one row
\* is the sample-size message, the completeness message, the outlier-ratio
\* message (present exactly when a numeric or integer column holds a number) and
\* the range warnings in column order; a run over a table without rows returns
\* no message.
C8_FixedMessageOrderOfRows ==
    Validated =>
        IF data = <<>> THEN validation_messages = <<>>
        ELSE /\ InFixedOrder(validation_messages)
             /\ (\E k \in 1..Len(validation_messages) :
                     validation_messages[k].check = "outlier_ratio")
                <=> TotalOf(stats, "count") > 0

\* a run that reports all four checks, with range warnings on two columns
C8_Witness ==
    /\ Validated
    /\ { validation_messages[k].check : k \in 1..Len(validation_messages) }
          = {"sample_size", "completeness", "outlier_ratio", "issue"}
    /\ \E j, k \in 1..Len(validation_issues) :
           validation_issues[j].field # validation_issues[k].field



(***************************************************************************)
(* Properties of the whole pipeline                                        *)
(***************************************************************************)
\* the table has one column, every value of it is present and parses as a
\* number
OneNumericColumn ==
    /\ Len(fieldnames) = 1
    /\ \A k \in 1..Len(data) :
         data[k][fieldnames[1]] # <<>> /\ IsNumeric(data[k][fieldnames[1]])

\* the number of values outside the 1.5 * IQR fences of the column's values
IqrOutliers(field) ==
    LET v == NumericValues(data, field)
        s == Sorted(v)
    IN  CountOutside(v, s[Len(v) \div 4 + 1], s[(3 * Len(v)) \div 4 + 1], 3, 2)

\* the table meets the premises of the clean run: enough rows, one column of
\* present numbers, none of them an outlier
CleanNumericTable ==
    /\ Len(data) >= Get(Get(Get(config, "thresholds", EmptyDict),
                            "data_quality", EmptyDict), "min_sample_size", 100)
    /\ OneNumericColumn
    /\ IqrOutliers(fieldnames[1]) = 0

\* C21: for a table of at least min_sample_size rows whose single column is
\* all present, all numbers and free of IQR outliers, the pipeline under the
\* default thresholds ends with quality score 1.0, verdict pass and a message
\* list without warning or error entries, whatever type was inferred
C21_CleanNumericColumnPasses ==
    CleanNumericTable =>
        /\ ipc # "raised"
        /\ ipc = "end" =>
             /\ stats.quality_score[1] = stats.quality_score[2]
             /\ validation_result = TRUE
             /\ \A k \in 1..Len(validation_messages) :
                  validation_messages[k].level \notin {"warning", "error"}

\* the clean run whose only blemish is a warning of the domain-range check
C21_RangeWarningOnly ==
    (CleanNumericTable /\ ipc = "end") =>
        /\ stats.quality_score[1] = stats.quality_score[2]
        /\ validation_result = TRUE
        /\ \A k \in 1..Len(validation_messages) :
             validation_messages[k].level \in {"warning", "error"}
                 => validation_messages[k].check = "issue"

\* C22: validation is a pure function of profile and configuration: when
\* validate returns, the statistics object and the configuration passed to
\* it have the keys and values they had before the call
C22_ValidateLeavesProfileAndConfig ==
    [][ValidateData => (stats' = stats /\ config' = config)]_vars

\* the second pass over the stages is over
SecondPassOver == pass_no = 2 /\ ipc \in {"end", "raised"}

CountedByRun ==
    (iteration_count - count_at_start) + (error_count - errors_at_start)

\* the number of values range(iterations) yields
RangeLen == IF iterations < 0 THEN 0 ELSE iterations

\* what holds of every step whatever ended the loop: a failed iteration adds
\* one to error_count and goes on to the delay, a successful one adds one to
\* iteration_count, no iteration starts once stop() was called, and run returns
\* with is_running False and _finalize run once
StepsAndExit ==
    /\ (rpc = "iter" /\ error_count' # error_count) =>
           (error_count' = error_count + 1 /\ rpc' = "sleep"
            /\ iteration_count' = iteration_count)
    /\ (rpc = "iter" /\ rpc' = "sleep" /\ error_count' = error_count) =>
           iteration_count' = iteration_count + 1
    /\ (stop_called /\ rpc = "loop") => rpc' # "iter"
    /\ rpc' = "returned" => (~is_running' /\ finalize_calls' = 1)

====
